---- MODULE Spec2Model ----
(***************************************************************************)
(* google-ddns-updater: one invocation of main() per pass, run repeatedly  *)
(* (cron) against the per-hostname ip.cache files and the provider's       *)
(* update endpoint.                                                        *)
(*                                                                         *)
(* Strings are sequences of atoms: <<>> is "", an IP address or a word is  *)
(* one atom, SP is the space character and NL a newline, so that           *)
(* strings.Split and strings.TrimSpace are computed, not assumed.          *)
(* os.WriteFile is modelled by its success contract; os.ReadFile of an     *)
(* existing file may fail, the environment chooses. Where two invocations  *)
(* overlap on one cache file (SpecOverlap) os.WriteFile is its two system  *)
(* calls, the truncating open and the write.                               *)
(***************************************************************************)
EXTENDS Naturals, Sequences, FiniteSets, TLC

VARIABLES
    cache,      \* cacheDir: hostname -> the ip.cache.<hostname> file
    args,       \* the parsed command line: -i value and hostname arguments
    confs,      \* helper.Configs read from the configs file
    pc,         \* position of main()
    hostnames,  \* main.go local
    ipAddr,     \* main.go local
    err,        \* main.go local
    idx,        \* position of the range loop over hostnames (1-based)
    conf,       \* main.go local: *Config for the current hostname
    savedIP,    \* main.go local
    exitCode,   \* how the process ended
    pass,       \* number of the current invocation
    calls,      \* history: the update requests sent in this pass
    trail,      \* history: what happened to each list position in this pass
    probed,     \* history: the probe outcome of this pass, if it was called
    applied,    \* history: the ip of each hostname's latest successful update
    prev,       \* history: the resolved ip and the outcomes of the pass before
    saver,      \* an invocation inside cacheIP while another one loads
    loader,     \* an invocation inside LoadCachedIP while another one saves
    last        \* history: the update call that has just returned, if any

vars == <<cache, args, confs, pc, hostnames, ipAddr, err, idx, conf, savedIP,
          exitCode, pass, calls, trail, probed, applied, prev, saver, loader, last>>

----------------------------------------------------------------------------
(* Bounds *)

MaxHostnames == 2
MaxPasses == 2
MaxTokens == 3

----------------------------------------------------------------------------
(* Strings *)

SP == " "
NL == "\n"
EmptyString == <<>>
fallbackIP == <<"0.0.0.0">>

IPAtoms == {"0.0.0.0", "1.2.3.4", "5.6.7.8"}
IPStrings == {<<a>> : a \in IPAtoms}
StatusWords == {"good", "nochg"}
ErrorWords == {"nohost", "badauth", "notfqdn", "badagent", "abuse", "911"}
Words == StatusWords \cup ErrorWords \cup {"junk"} \cup IPAtoms

\* strings.Split(s, " "): the pieces between the separators, empty ones kept
RECURSIVE Split(_)
Split(s) ==
    IF \A i \in 1..Len(s) : s[i] # SP THEN <<s>>
    ELSE LET k == CHOOSE i \in 1..Len(s) :
                      s[i] = SP /\ \A j \in 1..(i - 1) : s[j] # SP
         IN  <<SubSeq(s, 1, k - 1)>> \o Split(SubSeq(s, k + 1, Len(s)))

\* strings.TrimSpace(s)
RECURSIVE TrimSpace(_)
TrimSpace(s) ==
    IF s = <<>> THEN s
    ELSE IF Head(s) \in {SP, NL} THEN TrimSpace(Tail(s))
    ELSE IF s[Len(s)] \in {SP, NL} THEN TrimSpace(SubSeq(s, 1, Len(s) - 1))
    ELSE s

\* the text of a reply made of the given tokens, one space between them
RECURSIVE Join(_)
Join(toks) ==
    IF Len(toks) = 1 THEN toks[1]
    ELSE toks[1] \o <<SP>> \o Join(Tail(toks))

----------------------------------------------------------------------------
(* Errors *)

nil == [reason |-> "nil", detail |-> <<>>]
Errorf(reason, detail) == [reason |-> reason, detail |-> detail]

----------------------------------------------------------------------------
(* Configuration *)

Config(h, u, p) == [Hostname |-> h, Username |-> u, Password |-> p]
NoConfig == Config("", "", "")

HostA == "a.example.com"
HostB == "b.example.com"
HostX == "x.example.com"
HostnameArgs == {HostA, HostB, HostX}

\* Configs.Configs of the configs file; HostA is listed twice, HostX is not
ConfigList ==
    << Config(HostA, "u1", "p1"), Config(HostB, "u2", "p2"), Config(HostA, "u3", "p3") >>

Configs(ip) == [IPAddress |-> ip, Configs |-> ConfigList]

\* ConfigForHostname returning the last record with this hostname
ConfigForHostnameLast(cs, hostname) ==
    LET hits == {i \in 1..Len(cs.Configs) : cs.Configs[i].Hostname = hostname}
    IN  IF hits = {} THEN NoConfig
        ELSE cs.Configs[CHOOSE i \in hits : \A j \in hits : i >= j]

\* ConfigForHostname falling back to the first record for an unknown hostname
ConfigForHostnameDefault(cs, hostname) ==
    LET hits == {i \in 1..Len(cs.Configs) : cs.Configs[i].Hostname = hostname}
    IN  IF hits = {} THEN cs.Configs[1]
        ELSE cs.Configs[CHOOSE i \in hits : \A j \in hits : i <= j]

\* ConfigForHostname: the first record with this hostname, or NoConfig (nil)
ConfigForHostname(cs, hostname) ==
    LET hits == {i \in 1..Len(cs.Configs) : cs.Configs[i].Hostname = hostname}
    IN  IF hits = {} THEN NoConfig
        ELSE cs.Configs[CHOOSE i \in hits : \A j \in hits : i <= j]

----------------------------------------------------------------------------
(* Cache store *)

NoFile == [exists |-> FALSE, data |-> <<>>]
File(d) == [exists |-> TRUE, data |-> d]

\* cacheIP writing the ip to the file of every hostname
cacheIPEveryHostname(c, cf, ip) == [h \in DOMAIN c |-> File(ip)]

\* cacheIP leaving the file as it was
cacheIPNotWritten(c, cf, ip) == c

\* cacheIP: os.WriteFile(ipCacheFilepath(cacheDir, conf.Hostname), ip)
cacheIP(c, cf, ip) == [c EXCEPT ![cf.Hostname] = File(ip)]

\* LoadCachedIP without the create-on-read of a missing file
LoadCachedIPNoCreate(c, cf, readFails) ==
    IF ~c[cf.Hostname].exists
    THEN [ip |-> fallbackIP, err |-> nil, cache |-> c]
    ELSE IF readFails
         THEN [ip |-> EmptyString, err |-> Errorf("read", <<cf.Hostname>>), cache |-> c]
         ELSE [ip |-> c[cf.Hostname].data, err |-> nil, cache |-> c]

\* LoadCachedIP: value, error and the cache directory afterwards
LoadCachedIP(c, cf, readFails) ==
    IF ~c[cf.Hostname].exists
    THEN [ip |-> fallbackIP, err |-> nil, cache |-> cacheIP(c, cf, fallbackIP)]
    ELSE IF readFails
         THEN [ip |-> EmptyString, err |-> Errorf("read", <<cf.Hostname>>), cache |-> c]
         ELSE [ip |-> c[cf.Hostname].data, err |-> nil, cache |-> c]

----------------------------------------------------------------------------
(* Provider update client *)

\* the switch of checkResponse with the case for badagent left out
responseErrorNoBadAgent(cf, response) ==
    IF response = <<"nohost">> THEN Errorf("nohost", <<cf.Hostname>>)
    ELSE IF response = <<"badauth">>
        THEN Errorf("badauth", <<cf.Username, cf.Password, cf.Hostname>>)
    ELSE IF response = <<"notfqdn">> THEN Errorf("notfqdn", <<cf.Hostname>>)
    ELSE IF response = <<"abuse">> THEN Errorf("abuse", <<cf.Hostname>>)
    ELSE IF response = <<"911">> THEN Errorf("911", <<>>)
    ELSE Errorf("unhandled", response)

\* checkResponse, the switch over a reply without a second component
responseError(cf, response) ==
    IF response = <<"nohost">> THEN Errorf("nohost", <<cf.Hostname>>)
    ELSE IF response = <<"badauth">>
        THEN Errorf("badauth", <<cf.Username, cf.Password, cf.Hostname>>)
    ELSE IF response = <<"notfqdn">> THEN Errorf("notfqdn", <<cf.Hostname>>)
    ELSE IF response = <<"badagent">> THEN Errorf("badagent", <<>>)
    ELSE IF response = <<"abuse">> THEN Errorf("abuse", <<cf.Hostname>>)
    ELSE IF response = <<"911">> THEN Errorf("911", <<>>)
    ELSE Errorf("unhandled", response)

\* checkResponse caching the requested ip before it compares the returned one
checkResponseCachesFirst(c, cf, response, ip) ==
    LET comps == Split(response)
    IN  IF Len(comps) >= 2
        THEN [err |-> IF ip = comps[2] THEN nil ELSE Errorf("mismatch", comps[2] \o ip),
              cache |-> cacheIP(c, cf, ip)]
        ELSE [err |-> responseError(cf, response), cache |-> c]

\* checkResponse writing the returned ip to the cache file, equal or not
checkResponseCachesReturned(c, cf, response, ip) ==
    LET comps == Split(response)
    IN  IF Len(comps) >= 2
        THEN [err |-> IF ip = comps[2] THEN nil ELSE Errorf("mismatch", comps[2] \o ip),
              cache |-> cacheIP(c, cf, comps[2])]
        ELSE [err |-> responseError(cf, response), cache |-> c]

\* checkResponse reporting success without writing the cache file
checkResponseNotCached(c, cf, response, ip) ==
    LET comps == Split(response)
    IN  IF Len(comps) >= 2
        THEN IF ip = comps[2]
             THEN [err |-> nil, cache |-> c]
             ELSE [err |-> Errorf("mismatch", comps[2] \o ip), cache |-> c]
        ELSE [err |-> responseError(cf, response), cache |-> c]

\* checkResponse: error returned and the cache directory afterwards
checkResponse(c, cf, response, ip) ==
    LET comps == Split(response)
    IN  IF Len(comps) >= 2
        THEN IF ip = comps[2]
             THEN [err |-> nil, cache |-> cacheIP(c, cf, ip)]
             ELSE [err |-> Errorf("mismatch", comps[2] \o ip), cache |-> c]
        ELSE [err |-> responseError(cf, response), cache |-> c]

\* what httpClient.Do and io.ReadAll can hand to UpdateIP
NetError == [kind |-> "neterr", body |-> <<>>]
BodyError == [kind |-> "bodyerr", body |-> <<>>]
Response(r) == [kind |-> "resp", body |-> r]

\* UpdateIP writing the requested ip to the cache file whatever the outcome
UpdateIPCachesOnFailure(c, cf, ip, reply) ==
    IF reply.kind = "neterr"
    THEN [err |-> Errorf("transport", <<>>), cache |-> cacheIP(c, cf, ip)]
    ELSE IF reply.kind = "bodyerr"
         THEN [err |-> Errorf("readbody", <<>>), cache |-> cacheIP(c, cf, ip)]
         ELSE [err |-> checkResponse(c, cf, reply.body, ip).err, cache |-> cacheIP(c, cf, ip)]

\* UpdateIP returning nil when the request or the reading of the body failed
UpdateIPIgnoresTransportError(c, cf, ip, reply) ==
    IF reply.kind \in {"neterr", "bodyerr"} THEN [err |-> nil, cache |-> c]
    ELSE checkResponse(c, cf, reply.body, ip)

\* UpdateIP after the request was sent: error returned and the cache afterwards
UpdateIP(c, cf, ip, reply) ==
    IF reply.kind = "neterr" THEN [err |-> Errorf("transport", <<>>), cache |-> c]
    ELSE IF reply.kind = "bodyerr" THEN [err |-> Errorf("readbody", <<>>), cache |-> c]
    ELSE checkResponse(c, cf, reply.body, ip)

----------------------------------------------------------------------------
(* IP resolver *)

\* what httpClient.Do and io.ReadAll can hand to GetExternalIP
Probe(kind, status, body) == [kind |-> kind, status |-> status, body |-> body]

\* GetExternalIP: ip and error returned, or a nil dereference of resp
GetExternalIP(p) ==
    IF p.kind = "neterr"
    THEN [ip |-> EmptyString, err |-> nil, panic |-> TRUE]
    ELSE IF p.kind = "ok" /\ p.status = 200
         THEN [ip |-> TrimSpace(p.body), err |-> nil, panic |-> FALSE]
         ELSE IF p.kind = "bodyerr" /\ p.status = 200
              THEN [ip |-> fallbackIP, err |-> Errorf("readip", <<>>), panic |-> FALSE]
              ELSE [ip |-> fallbackIP, err |-> Errorf("fetchip", <<>>), panic |-> FALSE]

----------------------------------------------------------------------------
(* What the environment can supply *)

RECURSIVE SeqsUpTo(_, _)
SeqsUpTo(S, n) ==
    IF n = 0 THEN {<<>>}
    ELSE LET shorter == SeqsUpTo(S, n - 1)
         IN  shorter \cup {Append(q, x) : q \in shorter, x \in S}

\* the command line: an optional -i value and the hostname arguments
ArgSets ==
    [ip : {EmptyString, <<"1.2.3.4">>, fallbackIP}, hostnames : SeqsUpTo(HostnameArgs, MaxHostnames)]

\* the configs file: with or without a static "ip"
ConfSets == {Configs(EmptyString), Configs(<<"5.6.7.8">>)}

\* outcomes of the request to checkIPURL
Probes ==
    {Probe("neterr", 0, <<>>), Probe("redirect", 302, <<>>),
     Probe("bodyerr", 200, <<>>), Probe("ok", 503, <<>>),
     Probe("ok", 200, <<>>), Probe("ok", 200, <<"5.6.7.8">>)}
    \cup {Probe("ok", 200, <<a, NL>>) : a \in IPAtoms}

\* replies of the provider within a pass, for a request that asked for ip: the
\* transport failures, the two successes, a success word with another ip, an
\* unknown word with the ip, and an error code
PassReplies(ip) ==
    LET other == IF ip = <<"5.6.7.8">> THEN <<"1.2.3.4">> ELSE <<"5.6.7.8">>
    IN  {NetError, BodyError, Response(Join(<<<<"good">>, other>>)), Response(<<"badauth">>)}
        \cup {Response(Join(<<<<w>>, ip>>)) : w \in {"good", "nochg", "junk"}}

\* every reply text of at most MaxTokens tokens, a token being a word or empty
Tokens == {<<w>> : w \in Words} \cup {EmptyString}
AllResponses == {Join(toks) : toks \in SeqsUpTo(Tokens, MaxTokens) \ {<<>>}}
AllReplies == {NetError, BodyError} \cup {Response(r) : r \in AllResponses}

----------------------------------------------------------------------------
(* main() *)

NotProbed == [called |-> FALSE, kind |-> "", status |-> 0, body |-> <<>>]
NoCall == [made |-> FALSE]
NotApplied == [set |-> FALSE, ip |-> EmptyString]
NoSave == [pc |-> "none", hostname |-> "", ip |-> EmptyString, old |-> NoFile]
NoLoad == [pc |-> "none", hostname |-> "", ip |-> EmptyString, err |-> nil]
NoPass == [ran |-> FALSE, ip |-> EmptyString, fresh |-> {}, failed |-> {}]

\* what a finished pass leaves for the history: its ip, the hostnames it
\* updated from a missing cache file on the answer "good <ip>", and those
\* whose last update call failed
Summary(ip, t, cs) ==
    LET At(k) == {c \in 1..Len(cs) : cs[c].idx = k}
        Of(h) == {k \in 1..Len(t) : t[k].hostname = h}
    IN  [ran |-> TRUE, ip |-> ip,
         fresh |-> {t[k].hostname :
                       k \in {j \in 1..Len(t) :
                                 /\ t[j].outcome = "Updated"
                                 /\ ~t[j].existed
                                 /\ \A c \in At(j) :
                                        cs[c].reply = Response(Join(<<<<"good">>, ip>>))}},
         failed |-> {h \in HostnameArgs :
                        \E k \in Of(h) :
                            /\ t[k].outcome = "Failed"
                            /\ \A j \in Of(h) : j > k => ~(t[j].outcome \in {"Updated", "Failed"})}]

\* the check of main.go 112 left out: a failed load is treated as a value
loadSucceededAlways(e) == TRUE

\* main.go 112: whether LoadCachedIP returned without error
loadSucceeded(e) == e = nil

\* the comparison of main.go 113 left out: every loaded hostname is sent
needsUpdateAlways(ip, saved) == TRUE

\* main.go 113: whether the resolved ip has to be sent to the provider
needsUpdate(ip, saved) == ip # saved

\* the "ip" of the configs file taken before the -i value
configuredIPStaticFirst(argIP, cs) ==
    IF cs.IPAddress # EmptyString THEN cs.IPAddress ELSE argIP

\* main.go 85-88: the -i value, or else the "ip" of the configs file
configuredIP(argIP, cs) ==
    IF argIP = EmptyString THEN cs.IPAddress ELSE argIP

Init ==
    /\ cache = [h \in HostnameArgs |-> NoFile]
    /\ args \in ArgSets
    /\ confs \in ConfSets
    /\ pc = "start"
    /\ pass = 1
    /\ hostnames = args.hostnames
    /\ ipAddr = args.ip
    /\ err = nil
    /\ idx = 1
    /\ conf = NoConfig
    /\ savedIP = EmptyString
    /\ exitCode = "running"
    /\ calls = <<>>
    /\ trail = <<>>
    /\ probed = NotProbed
    /\ applied = [h \in HostnameArgs |-> NotApplied]
    /\ prev = NoPass
    /\ saver = NoSave
    /\ loader = NoLoad
    /\ last = NoCall

\* the next hostname sent to the provider without the lookup and the load
AfterHostnameSkipsLoad == IF idx + 1 > Len(hostnames) THEN "exit" ELSE "update"

\* the loop left as soon as the body for hostnames[idx] has set an error
AfterHostnameAbortsOnError ==
    IF err' # nil \/ idx + 1 > Len(hostnames) THEN "exit" ELSE "loop"

\* the position after the loop body for hostnames[idx] has finished
AfterHostname == IF idx + 1 > Len(hostnames) THEN "exit" ELSE "loop"

Visit(hostname, outcome, existed, loaded) ==
    [hostname |-> hostname, outcome |-> outcome, existed |-> existed,
     saved |-> loaded.ip, loadErr |-> loaded.err, err |-> loaded.err]

\* main.go 77-95: default the hostnames, resolve the ip address
Start ==
    /\ pc = "start"
    /\ hostnames' = IF Len(hostnames) <= 0
                    THEN [i \in 1..Len(confs.Configs) |-> confs.Configs[i].Hostname]
                    ELSE hostnames
    /\ LET given == configuredIP(ipAddr, confs)
       IN  IF given # EmptyString
           THEN /\ ipAddr' = given
                /\ pc' = IF Len(hostnames') = 0 THEN "exit" ELSE "loop"
                /\ UNCHANGED <<err, probed, exitCode>>
           ELSE \E p \in Probes :
                    LET got == GetExternalIP(p)
                    IN  /\ probed' = [called |-> TRUE, kind |-> p.kind, status |-> p.status,
                                      body |-> p.body]
                        /\ IF got.panic
                           THEN /\ pc' = "done"
                                /\ exitCode' = "panic"
                                /\ UNCHANGED <<ipAddr, err>>
                           ELSE /\ ipAddr' = got.ip
                                /\ err' = got.err
                                /\ pc' = IF got.ip = EmptyString \/ Len(hostnames') = 0
                                         THEN "exit" ELSE "loop"
                                /\ UNCHANGED exitCode
    /\ UNCHANGED <<cache, args, confs, idx, conf, savedIP, pass, calls, trail,
                   applied, prev, saver, loader, last>>

\* main.go 101-113, 119-123: look the hostname up, load its cached ip, compare
ForHostname ==
    /\ pc = "loop"
    /\ idx <= Len(hostnames)
    /\ LET hostname == hostnames[idx]
           cf == ConfigForHostname(confs, hostname)
       IN  /\ conf' = cf
           /\ IF cf = NoConfig
              THEN /\ UNCHANGED <<cache, savedIP, err>>
                   /\ trail' = Append(trail,
                          Visit(hostname, "Skipped", cache[hostname].exists,
                                [ip |-> EmptyString, err |-> nil]))
                   /\ idx' = idx + 1
                   /\ pc' = AfterHostname
              ELSE \E readFails \in BOOLEAN :
                       LET loaded == LoadCachedIP(cache, cf, readFails)
                       IN  /\ cache' = loaded.cache
                           /\ savedIP' = loaded.ip
                           /\ err' = loaded.err
                           /\ IF loadSucceeded(loaded.err) /\ needsUpdate(ipAddr, loaded.ip)
                              THEN /\ trail' = Append(trail,
                                          Visit(hostname, "Pending",
                                                cache[hostname].exists, loaded))
                                   /\ pc' = "update"
                                   /\ UNCHANGED idx
                              ELSE /\ trail' = Append(trail,
                                          Visit(hostname,
                                                IF loaded.err = nil THEN "UpToDate" ELSE "LoadFailed",
                                                cache[hostname].exists, loaded))
                                   /\ idx' = idx + 1
                                   /\ pc' = AfterHostname
    /\ last' = NoCall
    /\ UNCHANGED <<args, confs, hostnames, ipAddr, exitCode, pass, calls, probed,
                   applied, prev, saver, loader>>

\* UpdateIP called once more for the same hostname after its first failure
UpdateStepRetriesOnce(reply) ==
    /\ pc = "update"
    /\ LET updated == UpdateIP(cache, conf, ipAddr, reply)
           call == [made |-> TRUE, idx |-> idx, conf |-> conf, ip |-> ipAddr,
                    reply |-> reply, before |-> cache[conf.Hostname],
                    err |-> updated.err]
       IN  /\ cache' = updated.cache
           /\ err' = IF updated.err # nil THEN updated.err ELSE err
           /\ calls' = Append(calls, call)
           /\ last' = call
           /\ trail' = [trail EXCEPT ![idx].outcome =
                                         IF updated.err = nil THEN "Updated" ELSE "Failed",
                                     ![idx].err = updated.err]
           /\ applied' = IF updated.err = nil
                         THEN [applied EXCEPT ![conf.Hostname] = [set |-> TRUE, ip |-> ipAddr]]
                         ELSE applied
    /\ LET again == last'.err # nil /\ \A c \in 1..Len(calls) : calls[c].idx # idx
       IN  /\ idx' = IF again THEN idx ELSE idx + 1
           /\ pc' = IF again THEN "update" ELSE AfterHostname
    /\ UNCHANGED <<args, confs, hostnames, ipAddr, conf, savedIP, exitCode, pass,
                   probed, prev, saver, loader>>

\* main.go 114-118: UpdateIP for the current hostname, the provider answering reply
UpdateStep(reply) ==
    /\ pc = "update"
    /\ LET updated == UpdateIP(cache, conf, ipAddr, reply)
           call == [made |-> TRUE, idx |-> idx, conf |-> conf, ip |-> ipAddr,
                    reply |-> reply, before |-> cache[conf.Hostname],
                    err |-> updated.err]
       IN  /\ cache' = updated.cache
           /\ err' = IF updated.err # nil THEN updated.err ELSE err
           /\ calls' = Append(calls, call)
           /\ last' = call
           /\ trail' = [trail EXCEPT ![idx].outcome =
                                         IF updated.err = nil THEN "Updated" ELSE "Failed",
                                     ![idx].err = updated.err]
           /\ applied' = IF updated.err = nil
                         THEN [applied EXCEPT ![conf.Hostname] = [set |-> TRUE, ip |-> ipAddr]]
                         ELSE applied
    /\ idx' = idx + 1
    /\ pc' = AfterHostname
    /\ UNCHANGED <<args, confs, hostnames, ipAddr, conf, savedIP, exitCode, pass,
                   probed, prev, saver, loader>>

CallUpdateIP == pc = "update" /\ \E reply \in PassReplies(ipAddr) : UpdateStep(reply)

\* main.go 126-131: exit with the error, or finish
CheckError ==
    /\ pc = "exit"
    /\ exitCode' = IF err # nil THEN "error" ELSE "ok"
    /\ pc' = "done"
    /\ last' = NoCall
    /\ UNCHANGED <<cache, args, confs, hostnames, ipAddr, err, idx, conf, savedIP,
                   pass, calls, trail, probed, applied, prev, saver, loader>>

\* the next scheduled run of the same command line
Invoke ==
    /\ pc = "done"
    /\ pass < MaxPasses
    /\ pass' = pass + 1
    /\ pc' = "start"
    /\ hostnames' = args.hostnames
    /\ ipAddr' = args.ip
    /\ err' = nil
    /\ idx' = 1
    /\ conf' = NoConfig
    /\ savedIP' = EmptyString
    /\ exitCode' = "running"
    /\ calls' = <<>>
    /\ trail' = <<>>
    /\ probed' = NotProbed
    /\ prev' = Summary(ipAddr, trail, calls)
    /\ last' = NoCall
    /\ UNCHANGED <<cache, args, confs, applied, saver, loader>>

Next == Start \/ ForHostname \/ CallUpdateIP \/ CheckError \/ Invoke

Spec == Init /\ [][Next]_vars

----------------------------------------------------------------------------
(* UpdateIP on its own: main() stands before the call at main.go 114 with    *)
(* some cached ip that differs from the resolved one, and the provider may  *)
(* answer anything of at most MaxTokens tokens.                             *)

InitUpdate ==
    /\ confs = Configs(EmptyString)
    /\ \E h \in {HostA, HostB}, ip \in IPStrings, saved \in IPStrings :
           /\ needsUpdate(ip, saved)
           /\ args = [ip |-> ip, hostnames |-> <<h>>]
           /\ cache = [x \in HostnameArgs |-> IF x = h THEN File(saved) ELSE NoFile]
           /\ hostnames = <<h>>
           /\ ipAddr = ip
           /\ conf = ConfigForHostname(confs, h)
           /\ savedIP = saved
           /\ trail = <<Visit(h, "Pending", TRUE, [ip |-> saved, err |-> nil])>>
    /\ pc = "update"
    /\ pass = 1
    /\ err = nil
    /\ idx = 1
    /\ exitCode = "running"
    /\ calls = <<>>
    /\ probed = NotProbed
    /\ applied = [h \in HostnameArgs |-> NotApplied]
    /\ prev = NoPass
    /\ saver = NoSave
    /\ loader = NoLoad
    /\ last = NoCall

AnyReply == pc = "update" /\ \E reply \in AllReplies : UpdateStep(reply)

NextUpdate == AnyReply \/ CheckError

SpecUpdate == InitUpdate /\ [][NextUpdate]_vars

----------------------------------------------------------------------------
(* Two invocations on one cache file: one is inside cacheIP (os.WriteFile    *)
(* opens the file with O_TRUNC and then writes), the other inside           *)
(* LoadCachedIP (os.Stat, then os.ReadFile or the create-on-read), and the  *)
(* scheduler interleaves their system calls. Nothing in helper.go locks.    *)

\* os.WriteFile, first half: the file opened with O_CREATE|O_TRUNC
openTruncated(c, cf) == [c EXCEPT ![cf.Hostname] = File(EmptyString)]

InitOverlap ==
    /\ confs = Configs(EmptyString)
    /\ \E h \in {HostA, HostB}, new \in IPStrings,
          old \in {NoFile} \cup {File(d) : d \in IPStrings} :
           /\ args = [ip |-> new, hostnames |-> <<h>>]
           /\ cache = [x \in HostnameArgs |-> IF x = h THEN old ELSE NoFile]
           /\ hostnames = <<h>>
           /\ ipAddr = new
           /\ conf = ConfigForHostname(confs, h)
           /\ saver = [pc |-> "call", hostname |-> h, ip |-> new, old |-> old]
           /\ loader = [pc |-> "call", hostname |-> h, ip |-> EmptyString, err |-> nil]
    /\ pc = "overlap"
    /\ pass = 1
    /\ err = nil
    /\ idx = 1
    /\ savedIP = EmptyString
    /\ exitCode = "running"
    /\ calls = <<>>
    /\ trail = <<>>
    /\ probed = NotProbed
    /\ applied = [h \in HostnameArgs |-> NotApplied]
    /\ prev = NoPass
    /\ last = NoCall

mainIdle ==
    UNCHANGED <<args, confs, pc, hostnames, ipAddr, err, idx, conf, savedIP,
                exitCode, pass, calls, trail, probed, applied, prev, last>>

\* cacheIP, helper.go 167: os.WriteFile opens and truncates the file
cacheIPOpen ==
    /\ saver.pc = "call"
    /\ cache' = openTruncated(cache, conf)
    /\ saver' = [saver EXCEPT !.pc = "opened"]
    /\ UNCHANGED loader
    /\ mainIdle

\* cacheIP, helper.go 167: os.WriteFile writes the ip and closes the file
cacheIPWrite ==
    /\ saver.pc = "opened"
    /\ cache' = cacheIP(cache, conf, saver.ip)
    /\ saver' = [saver EXCEPT !.pc = "returned"]
    /\ UNCHANGED loader
    /\ mainIdle

\* LoadCachedIP, helper.go 143: os.Stat
LoadStat ==
    /\ loader.pc = "call"
    /\ loader' = [loader EXCEPT !.pc = IF cache[loader.hostname].exists
                                       THEN "read" ELSE "create"]
    /\ UNCHANGED <<cache, saver>>
    /\ mainIdle

\* LoadCachedIP, helper.go 146: cacheIP(fallbackIP) opens and truncates the file
LoadCreateOpen ==
    /\ loader.pc = "create"
    /\ cache' = openTruncated(cache, conf)
    /\ loader' = [loader EXCEPT !.pc = "created"]
    /\ UNCHANGED saver
    /\ mainIdle

\* LoadCachedIP, helper.go 146-148: fallbackIP written and returned
LoadCreateWrite ==
    /\ loader.pc = "created"
    /\ cache' = cacheIP(cache, conf, fallbackIP)
    /\ loader' = [loader EXCEPT !.pc = "returned", !.ip = fallbackIP]
    /\ UNCHANGED saver
    /\ mainIdle

\* LoadCachedIP, helper.go 151-158: os.ReadFile of the file os.Stat has found
LoadRead ==
    /\ loader.pc = "read"
    /\ \E readFails \in BOOLEAN :
           LET loaded == LoadCachedIP(cache, conf, readFails)
           IN  loader' = [loader EXCEPT !.pc = "returned", !.ip = loaded.ip,
                                        !.err = loaded.err]
    /\ UNCHANGED <<cache, saver>>
    /\ mainIdle

NextOverlap ==
    \/ cacheIPOpen \/ cacheIPWrite
    \/ LoadStat \/ LoadCreateOpen \/ LoadCreateWrite \/ LoadRead

SpecOverlap == InitOverlap /\ [][NextOverlap]_vars

----------------------------------------------------------------------------
(* Claims *)

Positions == 1..Len(trail)
CallsAt(k) == {c \in 1..Len(calls) : calls[c].idx = k}
Loaded(k) == trail[k].outcome # "Skipped" /\ trail[k].loadErr = nil
LastHost == last.conf.Hostname

\* C1: in a pass, a hostname whose cached ip returned by load equals the
\* resolved ip ends UpToDate, no update request is sent for it and its cache
\* entry stays as it is.
C1_UpToDateSendsNothing ==
    \A k \in Positions :
        (Loaded(k) /\ trail[k].saved = ipAddr) =>
            /\ trail[k].outcome = "UpToDate"
            /\ CallsAt(k) = {}
            /\ cache[trail[k].hostname] = File(trail[k].saved)

C1_Witness ==
    /\ pc = "done"
    /\ ipAddr # fallbackIP
    /\ \E k \in Positions :
           /\ trail[k].outcome = "UpToDate"
           /\ trail[k].existed
           /\ trail[k].saved = ipAddr

\* C2: an update that asked for ip X and got a reply of two tokens whose second
\* token is not X fails with the mismatch reason, whatever the first token is,
\* and the hostname's cache entry keeps the value it had before the call.
C2_MismatchFails ==
    last.made =>
        \A s \in Tokens, t \in Tokens :
            (t # last.ip /\ last.reply = Response(Join(<<s, t>>))) =>
                /\ last.err.reason = "mismatch"
                /\ trail[last.idx].outcome = "Failed"
                /\ cache[LastHost] = last.before

C2_Witness ==
    /\ last.made
    /\ last.ip = <<"1.2.3.4">>
    /\ last.reply = Response(<<"good", SP, "5.6.7.8">>)
    /\ last.err.reason = "mismatch"
    /\ last.before = File(<<"0.0.0.0">>)

\* C3: each of the replies nohost, badauth, notfqdn, badagent, abuse and 911
\* makes the update fail with the reason of that code and leaves the
\* hostname's cache entry unchanged.
C3_ErrorCodesFail ==
    last.made =>
        \A w \in ErrorWords :
            last.reply = Response(<<w>>) =>
                /\ last.err.reason = w
                /\ trail[last.idx].outcome = "Failed"
                /\ cache[LastHost] = last.before

C3_Witness ==
    /\ last.made
    /\ last.reply = Response(<<"badagent">>)
    /\ last.err.reason = "badagent"
    /\ cache[LastHost] = last.before

\* C4: an existing cache entry of a hostname is overwritten if and only if an
\* update call for that hostname got the reply "good <ip>" or "nochg <ip>"
\* with <ip> the requested ip; no other reply and no other step overwrites it.
C4_OverwrittenOnlyOnGoodOrNochg ==
    [][\A h \in HostnameArgs :
           cache[h].exists =>
               ((cache'[h] # cache[h]) <=>
                    /\ last'.made
                    /\ last'.conf.Hostname = h
                    /\ last'.reply \in {Response(Join(<<<<w>>, last'.ip>>)) : w \in StatusWords})]_vars

\* C5: an update succeeds only for the reply "good <ip>" or "nochg <ip>" with
\* <ip> the requested ip; every other reply that is not one of the six error
\* codes, a reply of two tokens whose first token is neither good nor nochg
\* and a reply of more than two tokens included, fails as unrecognized (where
\* the second token differs from the requested ip, the mismatch reason of C2
\* is accepted too).
SuccessReplies(ip) == {Response(Join(<<<<w>>, ip>>)) : w \in StatusWords}

C5_SuccessOnlyForGoodOrNochg ==
    last.made =>
        /\ last.err = nil => last.reply \in SuccessReplies(last.ip)
        /\ (/\ last.reply.kind = "resp"
            /\ last.reply \notin SuccessReplies(last.ip)
            /\ last.reply.body \notin {<<w>> : w \in ErrorWords})
               => \/ last.err.reason = "unhandled"
                  \/ /\ last.err.reason = "mismatch"
                     /\ Split(last.reply.body)[2] # last.ip

\* C6: when a pass ends and the reconciliation of at least one hostname
\* produced an error, the process ends with a failure that carries the error of
\* the last hostname, in list order, that produced one.
C6_LastErrorSurfaced ==
    LET failed == {k \in Positions : trail[k].err # nil}
    IN  (pc = "done" /\ exitCode # "panic" /\ failed # {}) =>
            /\ exitCode = "error"
            /\ err = trail[CHOOSE k \in failed : \A j \in failed : j <= k].err

ProbeFailed == probed.called /\ ~(probed.kind = "ok" /\ probed.status = 200)

\* C7: with no -i value and no static ip, a failed probe means that in this
\* pass no cache entry is read or written, no update request is sent and the
\* process ends with a failure.
C7_FailedProbeSkipsBatch ==
    (args.ip = EmptyString /\ confs.IPAddress = EmptyString /\ ProbeFailed) =>
        /\ \A k \in Positions : trail[k].outcome = "Skipped"
        /\ calls = <<>>
        /\ pc = "done" => exitCode \in {"error", "panic"}

\* C8: when neither the -i value nor the static ip is 0.0.0.0, no update
\* request carries 0.0.0.0 as its ip, whatever the probe returns or however it
\* fails and whatever the caches hold.
C8_SentinelNeverPublished ==
    (args.ip # fallbackIP /\ confs.IPAddress # fallbackIP) =>
        \A c \in 1..Len(calls) : calls[c].ip # fallbackIP

\* C9: after an update for a hostname that asked for ip X ended in success,
\* the next load of that hostname that returns a value returns exactly X.
C9_LoadReturnsAppliedIP ==
    [][\A h \in HostnameArgs :
           (/\ pc = "loop"
            /\ idx <= Len(hostnames)
            /\ hostnames[idx] = h
            /\ applied[h].set
            /\ conf' # NoConfig
            /\ err' = nil)
               => savedIP' = applied[h].ip]_vars

C9_Witness ==
    /\ pass = 2
    /\ calls = <<>>
    /\ \E k \in Positions :
           /\ Loaded(k)
           /\ applied[trail[k].hostname].set
           /\ applied[trail[k].hostname].ip # fallbackIP
           /\ trail[k].saved = applied[trail[k].hostname].ip

\* C10: for a hostname without a cache entry, load writes 0.0.0.0 as its cache
\* value and returns 0.0.0.0 without error, so that in this pass an update is
\* attempted for it whenever the resolved ip is not 0.0.0.0.
C10_CreateOnReadForcesUpdate ==
    \A k \in Positions :
        (trail[k].outcome # "Skipped" /\ ~trail[k].existed) =>
            /\ trail[k].loadErr = nil
            /\ trail[k].saved = fallbackIP
            /\ cache[trail[k].hostname] \in {File(fallbackIP), File(ipAddr)}
            /\ ipAddr # fallbackIP =>
                   \/ trail[k].outcome = "Pending" /\ pc = "update" /\ idx = k
                   \/ trail[k].outcome \in {"Updated", "Failed"} /\ Cardinality(CallsAt(k)) = 1

C10_Witness ==
    \E k \in Positions :
        /\ ~trail[k].existed
        /\ trail[k].outcome = "Failed"
        /\ cache[trail[k].hostname] = File(fallbackIP)
        /\ CallsAt(k) # {}

\* C11: when a pass with resolved ip X updated a hostname that had no cache
\* file, on the reply "good X", then its cache entry holds X when that pass
\* has ended and all through the next pass with the same resolved ip X, and in
\* that next pass no update request is sent for the hostname: every position
\* of it whose load returns a value ends UpToDate.
C11_SecondPassUpToDate ==
    \A h \in prev.fresh :
        prev.ip = ipAddr =>
            /\ cache[h] = File(ipAddr)
            /\ \A k \in Positions :
                   trail[k].hostname = h =>
                       /\ CallsAt(k) = {}
                       /\ Loaded(k) => trail[k].outcome = "UpToDate"

C11_Witness ==
    /\ pass = 2
    /\ pc = "done"
    /\ prev.ip = ipAddr
    /\ calls = <<>>
    /\ \E k \in Positions :
           /\ trail[k].hostname \in prev.fresh
           /\ trail[k].outcome = "UpToDate"
           /\ cache[trail[k].hostname] = File(ipAddr)

Configured(h) == \E i \in 1..Len(confs.Configs) : confs.Configs[i].Hostname = h
Failures == {j \in Positions : trail[j].outcome = "Failed"}
PassOver == pc \in {"exit", "done"} /\ exitCode # "panic"

\* position k of the list has been visited and, if its hostname has a record,
\* loaded, and sent if the loaded ip is not the resolved one
Reconciled(k) ==
    /\ k \in Positions
    /\ trail[k].hostname = hostnames[k]
    /\ Configured(hostnames[k]) =>
           /\ trail[k].outcome # "Skipped"
           /\ cache[hostnames[k]].exists
           /\ (Loaded(k) /\ trail[k].saved # ipAddr) => Cardinality(CallsAt(k)) = 1

\* C12: after a hostname has ended Failed the pass goes on: when the pass is
\* over, every later position of the list has been visited, each later
\* position with a configuration record has had its load, and each of those
\* whose load returned an ip other than the resolved one has had its update
\* request.
C12_FailedDoesNotAbort ==
    \A j \in Failures :
        /\ pc \in {"loop", "update"} \/ PassOver
        /\ pc = "loop" => idx <= Len(hostnames)
        /\ PassOver =>
               \A k \in (j + 1)..Len(hostnames) : Reconciled(k)

C12_Witness ==
    /\ pc = "done"
    /\ \E j \in Failures :
           \E k \in Positions :
               /\ k > j
               /\ trail[k].hostname # trail[j].hostname
               /\ trail[k].outcome = "Updated"

Skips == {j \in Positions : trail[j].outcome = "Skipped"}

\* C13: a position of the list ends Skipped exactly when its hostname has no
\* record in the configuration; such a position reads and writes no cache
\* file, sends no request and sets no error, so a pass that only skipped ends
\* in success unless the probe failed; and when the pass is over every later
\* position of the list has been reconciled.
C13_UnknownHostnameSkipped ==
    /\ \A k \in Positions : (k \in Skips) <=> ~Configured(trail[k].hostname)
    /\ \A j \in Skips :
           /\ CallsAt(j) = {}
           /\ trail[j].err = nil
           /\ cache[trail[j].hostname] = NoFile
           /\ PassOver => \A k \in (j + 1)..Len(hostnames) : Reconciled(k)
    /\ (pc = "done" /\ exitCode # "panic" /\ Skips = Positions /\ ~ProbeFailed)
           => exitCode = "ok"

C13_Witness ==
    /\ pc = "done"
    /\ exitCode = "ok"
    /\ \E j \in Skips :
           \E k \in Positions :
               /\ k > j
               /\ trail[k].outcome = "Updated"

\* C14: once main() has resolved the ip of the pass, it is the -i value when
\* one was given, else the "ip" of the configs file when it has one, else the
\* trimmed body a successful probe returned; and the probe has been called
\* exactly when neither the -i value nor the "ip" of the configs exists.
C14_ResolvedIPPrecedence ==
    /\ probed.called =>
           /\ args.ip = EmptyString
           /\ confs.IPAddress = EmptyString
    /\ pc # "start" =>
           IF args.ip # EmptyString
           THEN ipAddr = args.ip /\ ~probed.called
           ELSE IF confs.IPAddress # EmptyString
                THEN ipAddr = confs.IPAddress /\ ~probed.called
                ELSE /\ probed.called
                     /\ ~ProbeFailed => ipAddr = TrimSpace(probed.body)

C14_Witness ==
    /\ pc = "done"
    /\ args.ip = <<"1.2.3.4">>
    /\ confs.IPAddress = <<"5.6.7.8">>
    /\ ipAddr = <<"1.2.3.4">>
    /\ ~probed.called
    /\ calls # <<>>
    /\ \A c \in 1..Len(calls) : calls[c].ip = <<"1.2.3.4">>

\* C15: a load that overlaps a save of the same hostname and returns without
\* error returns the complete value the cache had before the save (0.0.0.0
\* where there was no file) or the complete value the save writes, never an
\* empty or partial one.
C15_LoadSeesWholeValue ==
    (loader.pc = "returned" /\ loader.err = nil) =>
        loader.ip \in {saver.ip, IF saver.old.exists THEN saver.old.data ELSE fallbackIP}

\* C16: when the request to the probe fails with a network or timeout error,
\* GetExternalIP returns an error and the process reaches its end with a
\* failure; it does not crash.
C16_ProbeTransportErrorReported ==
    (probed.called /\ probed.kind = "neterr") =>
        /\ exitCode # "panic"
        /\ pc # "start" => err # nil
        /\ pc = "done" => exitCode = "error"

TransportReplies == {NetError, BodyError}

\* C17: an update call whose request fails or whose body cannot be read
\* returns an error, its hostname ends Failed with the cache entry as it was
\* before the call, main() moves on to the next position of the list, and
\* when the pass is over every later position has been reconciled.
C17_UpdateTransportErrorFails ==
    /\ (last.made /\ last.reply \in TransportReplies) =>
           /\ last.err # nil
           /\ trail[last.idx].outcome = "Failed"
           /\ cache[LastHost] = last.before
           /\ idx = last.idx + 1
           /\ pc = IF last.idx < Len(hostnames) THEN "loop" ELSE "exit"
    /\ \A c \in 1..Len(calls) :
           calls[c].reply \in TransportReplies =>
               /\ calls[c].err # nil
               /\ trail[calls[c].idx].outcome = "Failed"
               /\ PassOver => \A k \in (calls[c].idx + 1)..Len(hostnames) : Reconciled(k)

C17_Witness ==
    /\ pc = "done"
    /\ Len(calls) = 2
    /\ calls[1].reply = NetError
    /\ calls[1].before = File(fallbackIP)
    /\ cache[calls[1].conf.Hostname] = File(fallbackIP)
    /\ calls[2].conf.Hostname # calls[1].conf.Hostname
    /\ trail[calls[2].idx].outcome = "Updated"

\* the history follows the list: position k of the trail is hostnames[k], the
\* calls are in list order, a call belongs to a position already loaded, and
\* only the position main() stands at can be waiting for its update
InListOrder ==
    /\ Len(trail) <= Len(hostnames)
    /\ Len(trail) \in {idx - 1, idx}
    /\ \A k \in Positions :
           /\ trail[k].hostname = hostnames[k]
           /\ trail[k].outcome = "Pending" => (k = idx /\ pc = "update")
    /\ pc = "update" => (Len(trail) = idx /\ trail[idx].outcome = "Pending")
    /\ \A c \in 1..Len(calls) :
           /\ calls[c].idx \in Positions
           /\ calls[c].conf.Hostname = hostnames[calls[c].idx]
           /\ Loaded(calls[c].idx)
           /\ \A d \in 1..Len(calls) : c < d => calls[c].idx < calls[d].idx

\* a step inside a pass never moves back in the list, touches no cache file
\* but that of hostnames[idx], and sends a request or writes the cache on a
\* reply only for the position whose load has returned without error
OneAtATime ==
    pass' = pass =>
        /\ idx' >= idx
        /\ \A h \in HostnameArgs :
               cache'[h] # cache[h] =>
                   /\ idx <= Len(hostnames)
                   /\ h = hostnames[idx]
                   /\ pc = "update" => (Len(trail) = idx /\ Loaded(idx))
        /\ Len(calls') > Len(calls) =>
               /\ Len(calls') = Len(calls) + 1
               /\ calls'[Len(calls')].idx = idx
               /\ Len(trail) = idx
               /\ Loaded(idx)
               /\ trail[idx].hostname = calls'[Len(calls')].conf.Hostname

\* C18: the hostnames are reconciled one at a time in the order of the list:
\* all cache accesses and the update call of a position happen while main()
\* stands at that position, positions are never revisited, and a hostname's
\* cache is written on a reply only after its load has returned.
C18_SequentialInOrder == []InListOrder /\ [][OneAtATime]_vars

C18_Witness ==
    /\ pc = "done"
    /\ Len(hostnames) = 2
    /\ Len(calls) = 2
    /\ calls[1].idx = 1
    /\ calls[2].idx = 2
    /\ hostnames[1] = hostnames[2]

\* C19: within a pass at most one update request is sent for each position of
\* the list, whether it succeeds or fails; once a position has ended Failed
\* main() has left it, so a failed request is not repeated in the same pass.
C19_OneCallPerPosition ==
    /\ Len(calls) <= Len(trail)
    /\ \A k \in Positions :
           /\ Cardinality(CallsAt(k)) <= 1
           /\ trail[k].outcome \in {"Updated", "Failed"} =>
                  /\ Cardinality(CallsAt(k)) = 1
                  /\ idx > k
                  /\ pc # "update" \/ idx # k

C19_Witness ==
    /\ pc = "done"
    /\ Len(hostnames) = 2
    /\ hostnames[1] = hostnames[2]
    /\ Len(trail) = 2
    /\ trail[1].outcome = "Failed"
    /\ trail[2].outcome = "Failed"
    /\ Len(calls) = 2
    /\ calls[1].reply = NetError
    /\ calls[2].reply = Response(<<"badauth">>)

\* C20: a pass never crashes, and when it has ended it has exactly one
\* outcome, success or failure, and, unless the resolved ip is empty, every
\* position of the list has reached Skipped, UpToDate, Updated or Failed (a
\* position whose cache file could not be read is counted with Failed).
C20_PassEndsWithOneOutcome ==
    /\ exitCode \in {"running", "ok", "error"}
    /\ pc = "done" =>
           /\ exitCode \in {"ok", "error"}
           /\ ipAddr # EmptyString =>
                  /\ Len(trail) = Len(hostnames)
                  /\ \A k \in Positions :
                         trail[k].outcome \in
                             {"Skipped", "UpToDate", "Updated", "Failed", "LoadFailed"}

\* the positions of hostname h before position k that ended Updated
UpdatedBefore(h, k) ==
    {j \in Positions : j < k /\ trail[j].hostname = h /\ trail[j].outcome = "Updated"}

\* C21: when the last update of a hostname in a pass ended Failed, its cache
\* entry does not hold the resolved ip afterwards, and in the next pass with
\* the same resolved ip every position of that hostname whose load returns a
\* value gets an update request, until one of them has succeeded.
C21_FailedUpdateSentAgain ==
    \A h \in prev.failed :
        prev.ip = ipAddr =>
            /\ (\A k \in Positions : trail[k].hostname = h => trail[k].outcome # "Updated")
                   => cache[h] # File(ipAddr)
            /\ \A k \in Positions :
                   (trail[k].hostname = h /\ Loaded(k) /\ UpdatedBefore(h, k) = {}) =>
                       \/ trail[k].outcome = "Pending" /\ pc = "update" /\ idx = k
                       \/ /\ trail[k].outcome \in {"Updated", "Failed"}
                          /\ Cardinality(CallsAt(k)) = 1

C21_Witness ==
    /\ pass = 2
    /\ pc = "done"
    /\ prev.ip = ipAddr
    /\ \E k \in Positions :
           /\ trail[k].hostname \in prev.failed
           /\ trail[k].existed
           /\ trail[k].outcome = "Failed"
           /\ CallsAt(k) # {}

\* the reply of call has a second token and it is the ip the call asked for
Echoed(call) ==
    /\ call.reply.kind = "resp"
    /\ Len(Split(call.reply.body)) >= 2
    /\ Split(call.reply.body)[2] = call.ip

\* every cache file holds 0.0.0.0 or the ip of the latest update of its
\* hostname that wrote it
SentinelOrApplied ==
    \A h \in HostnameArgs :
        cache[h].exists =>
            \/ cache[h].data = fallbackIP
            \/ applied[h].set /\ cache[h].data = applied[h].ip

\* a step that changes a cache file either creates it with 0.0.0.0 or is the
\* return of an update call for that hostname whose reply echoed the ip the
\* call asked for, and it writes that ip
WrittenOnlyWithEchoedIP ==
    \A h \in HostnameArgs :
        cache'[h] # cache[h] =>
            \/ ~cache[h].exists /\ cache'[h] = File(fallbackIP)
            \/ /\ last'.made
               /\ last'.conf.Hostname = h
               /\ Echoed(last')
               /\ cache'[h] = File(last'.ip)
               /\ applied'[h] = [set |-> TRUE, ip |-> last'.ip]

\* C22: after any sequence of passes every existing cache entry holds either
\* 0.0.0.0 or an ip that an update call for the same hostname asked for and
\* that the provider's reply to that call returned as its second token.
C22_SentinelOrEchoedIP == []SentinelOrApplied /\ [][WrittenOnlyWithEchoedIP]_vars

C22_Witness ==
    /\ pass = 2
    /\ pc = "done"
    /\ cache[HostA] = File(<<"5.6.7.8">>)
    /\ cache[HostB] = File(fallbackIP)
    /\ prev.failed = {HostB}
    /\ applied[HostA] = [set |-> TRUE, ip |-> <<"5.6.7.8">>]

\* the hostnames main() ranges over: the arguments, or all of the configs
Listed ==
    IF args.hostnames = <<>>
    THEN {confs.Configs[i].Hostname : i \in 1..Len(confs.Configs)}
    ELSE {args.hostnames[i] : i \in 1..Len(args.hostnames)}

\* C23: the cache file of a hostname that is not in the hostname list, or has
\* no record in the configuration, is never created or written, no load reads
\* it and no update request is sent for it; a Skipped position leaves its
\* hostname without a cache file.
C23_OnlyListedConfiguredTouched ==
    /\ \A h \in HostnameArgs :
           cache[h].exists => (h \in Listed /\ Configured(h))
    /\ \A k \in Positions :
           /\ trail[k].hostname \in Listed
           /\ trail[k].outcome # "Skipped" => Configured(trail[k].hostname)
           /\ trail[k].outcome = "Skipped" => ~cache[trail[k].hostname].exists
    /\ \A c \in 1..Len(calls) :
           /\ calls[c].conf.Hostname \in Listed
           /\ Configured(calls[c].conf.Hostname)
           /\ calls[c].conf.Hostname = trail[calls[c].idx].hostname

C23_Witness ==
    /\ pc = "done"
    /\ hostnames = <<HostX, HostA>>
    /\ cache[HostX] = NoFile
    /\ cache[HostB] = NoFile
    /\ cache[HostA] = File(ipAddr)
    /\ ipAddr # fallbackIP
    /\ Len(calls) = 1

ReadErrors == {k \in Positions : trail[k].loadErr # nil}

\* a position whose load failed has sent nothing, is not waiting to send, has
\* the read error as its error, and the positions after it are reconciled
ReadErrorSendsNothing ==
    \A k \in ReadErrors :
        /\ trail[k].outcome = "LoadFailed"
        /\ CallsAt(k) = {}
        /\ trail[k].existed
        /\ trail[k].err = Errorf("read", <<trail[k].hostname>>)
        /\ pc \in {"loop", "update"} \/ PassOver
        /\ PassOver => \A j \in (k + 1)..Len(hostnames) : Reconciled(j)

\* the step in which a load fails writes no cache file, leaves the read error
\* in err and moves main() to the next position of the list
ReadErrorStep ==
    (Len(trail') = Len(trail) + 1 /\ trail'[Len(trail')].loadErr # nil) =>
        /\ cache' = cache
        /\ calls' = calls
        /\ err' = Errorf("read", <<hostnames[idx]>>)
        /\ idx' = idx + 1
        /\ pc' = IF idx < Len(hostnames) THEN "loop" ELSE "exit"

\* C24: when the read of an existing cache file fails, no update request is
\* sent for that position, the step writes no cache file, the read error is
\* what main() holds as error after the step, and main() goes on with the next
\* hostname.
C24_ReadErrorSkipsUpdate == []ReadErrorSendsNothing /\ [][ReadErrorStep]_vars

C24_Witness ==
    /\ pc = "done"
    /\ pass = 2
    /\ Len(trail) = 2
    /\ trail[1].outcome = "LoadFailed"
    /\ trail[1].hostname # trail[2].hostname
    /\ trail[2].outcome = "Updated"
    /\ cache[trail[1].hostname] # File(ipAddr)

\* every request of the pass so far asked for the resolved ip, for the
\* hostname at its position of the list, with the credentials of the first
\* record of the configs that has this hostname
CallsCarryPassIP ==
    \A c \in 1..Len(calls) :
        /\ calls[c].ip = ipAddr
        /\ calls[c].conf.Hostname = hostnames[calls[c].idx]
        /\ \E i \in 1..Len(confs.Configs) :
               /\ confs.Configs[i] = calls[c].conf
               /\ \A j \in 1..(i - 1) : confs.Configs[j].Hostname # calls[c].conf.Hostname

\* once resolved, the ip of the pass does not change until the pass is over
ResolvedOnce == (pc # "start" /\ pass' = pass) => ipAddr' = ipAddr

\* C25: every update request of a pass carries the one ip resolved at the
\* start of the pass, the hostname being reconciled, and the username and
\* password of the first configuration record with that hostname.
C25_CallCarriesPassIPAndFirstRecord == []CallsCarryPassIP /\ [][ResolvedOnce]_vars

C25_Witness ==
    /\ pc = "done"
    /\ Len(calls) = 2
    /\ calls[1].conf = Config(HostB, "u2", "p2")
    /\ calls[2].conf = Config(HostA, "u1", "p1")
    /\ probed.called
    /\ calls[1].ip = <<"1.2.3.4">>
    /\ calls[2].ip = <<"1.2.3.4">>

====
